---- MODULE Spec2Model ----
(***************************************************************************)
(* ViBE (Vi Barebones Editor), src/main.py: the action-replay undo/redo   *)
(* engine (new_undoable) and the modal keystroke dispatch that drives it. *)
(*                                                                         *)
(* Characters are their integer codes (chr(k) is modelled by k), a line   *)
(* is a sequence of codes and the buffer a sequence of lines.  Python's   *)
(* zero-based index i is position i+1 of a TLA+ sequence.  The platform   *)
(* is the unix one (is_unix = True): "\n" is 10, "\r" is 13 and           *)
(* backspace is 127.                                                       *)
(***************************************************************************)
EXTENDS Integers, Sequences, FiniteSets, TLC

VARIABLES
    starting_state,  \* new_undoable: the pristine buffer fresh_copy() clones
    state,           \* new_undoable: the live buffer
    history,         \* new_undoable: committed (action, carried_state) pairs
    redo_stack,      \* new_undoable: undone pairs, most recently undone last
    column,          \* main: cursor column, zero based
    line_no,         \* main: cursor line, zero based
    current_mode,    \* main: "insert" | "normal" | "command"
    command_buffer,  \* main: the command typed so far
    is_debug_mode,   \* main: the flag the debug command toggles
    key,             \* main loop: the key-code read last (-1: none yet)
    status,          \* the process: "running" | "crashed" | "exited"
    calls,           \* history variable: the latest calls of buffer_action
    trip             \* history variable: an undo/redo round trip under way

vars == <<starting_state, state, history, redo_stack, column, line_no,
          current_mode, command_buffer, is_debug_mode, key, status, calls, trip>>

----------------------------------------------------------------------------
(* Bounds of the model.  Spec is the whole editor; SpecFile is the whole  *)
(* editor typing the file command; SpecEdit is the editor without its     *)
(* command mode, explored further.                                        *)

\* Spec: most entries History holds.
MaxHist == 1

\* Spec: most characters the Command Buffer holds.
MaxCmd == 3

\* Spec: largest cursor column (typing after an UNDO can push the column
\* past the end of its line, one further each time).
MaxCol == 2

\* SpecFile: most entries History holds.
FileMaxHist == 1

\* SpecFile: most characters the Command Buffer holds.
FileMaxCmd == 3

\* SpecFile: largest cursor column.
FileMaxCol == 1

\* SpecEdit: most entries History holds.
EditMaxHist == 2

\* SpecEdit: largest cursor column.
EditMaxCol == 2

----------------------------------------------------------------------------
(* Python sequence primitives. *)

Min(a, b) == IF a < b THEN a ELSE b

\* s[:n] for n >= 0: a slice never raises, it stops at the end of s.
SliceTo(s, n) == SubSeq(s, 1, Min(n, Len(s)))

\* s[n:] for n >= 0.
SliceFrom(s, n) == SubSeq(s, Min(n, Len(s)) + 1, Len(s))

\* s.startswith(p)
StartsWith(s, p) == Len(p) <= Len(s) /\ SubSeq(s, 1, Len(p)) = p

\* del s[i] for a valid zero-based i.
DelAt(s, i) == SubSeq(s, 1, i) \o SubSeq(s, i + 2, Len(s))

\* s.insert(i, x) for 0 <= i <= len(s).
InsertAt(s, i, x) == SubSeq(s, 1, i) \o <<x>> \o SubSeq(s, i + 1, Len(s))

\* str.split(sep) for a one-character sep: the pieces between separators,
\* empty pieces kept, so the result is never the empty list.
RECURSIVE SplitFrom(_, _, _)
SplitFrom(s, sep, piece) ==
    IF s = <<>> THEN <<piece>>
    ELSE IF Head(s) = sep THEN <<piece>> \o SplitFrom(Tail(s), sep, <<>>)
    ELSE SplitFrom(Tail(s), sep, Append(piece, Head(s)))

\* A split that drops the empty pieces, as str.split() with no argument
\* does: an empty string then yields no piece at all.
SplitDroppingEmpty(s, sep) ==
    LET NonEmpty(piece) == piece # <<>>
    IN SelectSeq(SplitFrom(s, sep, <<>>), NonEmpty)

Split(s, sep) == SplitFrom(s, sep, <<>>)

\* The characters str.split() with no argument treats as whitespace, among
\* the codes 0..255: tab, newline, vertical tab, form feed, return, FS..US,
\* space, NEL (133) and the no-break space (160).
IsSpace(c) == c \in {9, 10, 11, 12, 13, 28, 29, 30, 31, 32, 133, 160}

\* str.split(): the runs of non-whitespace; no empty pieces, maybe none.
RECURSIVE SplitWsFrom(_, _)
SplitWsFrom(s, piece) ==
    IF s = <<>> THEN (IF piece = <<>> THEN <<>> ELSE <<piece>>)
    ELSE IF IsSpace(Head(s))
         THEN (IF piece = <<>> THEN <<>> ELSE <<piece>>) \o SplitWsFrom(Tail(s), <<>>)
         ELSE SplitWsFrom(Tail(s), Append(piece, Head(s)))

SplitWhitespace(s) == SplitWsFrom(s, <<>>)

\* clamp(minimum, maximum, value)
clamp(minimum, maximum, value) ==
    IF value < minimum THEN minimum
    ELSE IF value > maximum THEN maximum
    ELSE value

----------------------------------------------------------------------------
(* re.search and re.sub for a pattern and a replacement made of literal    *)
(* characters (letters, digits, space, "/"): the only ones the model types *)
(* into a command.                                                         *)

\* Whether pattern occurs in line at zero-based position i.
MatchesAt(pattern, line, i) ==
    /\ i + Len(pattern) <= Len(line)
    /\ SubSeq(line, i + 1, i + Len(pattern)) = pattern

\* re.search(pattern, line).span()[0], or -1 when there is no match.
re_search(pattern, line) ==
    LET hits == {i \in 0..Len(line) : MatchesAt(pattern, line, i)}
    IN IF hits = {} THEN -1 ELSE CHOOSE i \in hits : \A j \in hits : i <= j

\* re.sub(search, replace, line): every non-overlapping match, leftmost
\* first; an empty pattern matches before every character and at the end.
RECURSIVE re_sub_from(_, _, _, _)
re_sub_from(search, replace, line, i) ==
    IF i > Len(line) THEN <<>>
    ELSE IF search = <<>>
         THEN replace \o (IF i = Len(line) THEN <<>>
                          ELSE <<line[i + 1]>> \o re_sub_from(search, replace, line, i + 1))
    ELSE IF i = Len(line) THEN <<>>
    ELSE IF MatchesAt(search, line, i)
         THEN replace \o re_sub_from(search, replace, line, i + Len(search))
    ELSE <<line[i + 1]>> \o re_sub_from(search, replace, line, i + 1)

re_sub(search, replace, line) == re_sub_from(search, replace, line, 0)

\* search_and_replace(buffer, search, replace)
search_and_replace(buffer, search, replace) ==
    [i \in 1..Len(buffer) |-> re_sub(search, replace, buffer[i])]

----------------------------------------------------------------------------
(* The buffer actions.  Each takes the buffer, the carried state           *)
(* <<c_column, c_line_no>> and the live cursor (col, ln) it may overwrite, *)
(* and yields the buffer and the live cursor afterwards; raised is TRUE    *)
(* when the Python code raises (an IndexError on state[c_line_no]), with   *)
(* the buffer as it was at the raise.                                      *)

Outcome(st, col, ln, raised) ==
    [state |-> st, column |-> col, line_no |-> ln, raised |-> raised]

\* make_carried_state()
make_carried_state == <<column, line_no>>

\* generate_generic_key(k).key_action
key_action(k, st, carried, col, ln) ==
    LET c_column == carried[1]
        c_line_no == carried[2]
    IN IF c_line_no >= Len(st) THEN Outcome(st, col, ln, TRUE)
       ELSE LET line == st[c_line_no + 1]
            IN Outcome([st EXCEPT ![c_line_no + 1] =
                            SliceTo(line, c_column) \o <<k>> \o SliceFrom(line, c_column)],
                       c_column + 1, c_line_no, FALSE)

\* action_newline splitting the live line instead of the carried one.
action_newline_at_live_line(st, carried, col, ln) ==
    LET c_column == carried[1]
    IN IF ln >= Len(st) THEN Outcome(st, col, ln, TRUE)
       ELSE LET line == st[ln + 1]
                inserted == InsertAt(st, ln + 1, SliceFrom(line, c_column))
            IN Outcome([inserted EXCEPT ![ln + 1] = SliceTo(line, c_column)],
                       0, ln + 1, FALSE)

\* action_newline
action_newline(st, carried, col, ln) ==
    LET c_column == carried[1]
        c_line_no == carried[2]
    IN IF c_line_no >= Len(st) THEN Outcome(st, col, ln, TRUE)
       ELSE LET line == st[c_line_no + 1]
                inserted == InsertAt(st, c_line_no + 1, SliceFrom(line, c_column))
            IN Outcome([inserted EXCEPT ![c_line_no + 1] = SliceTo(line, c_column)],
                       0, c_line_no + 1, FALSE)

\* action_backspace.  The first branch assigns lind_no, not line_no: the
\* live line is left as it was.
action_backspace(st, carried, col, ln) ==
    LET c_column == carried[1]
        c_line_no == carried[2]
    IN IF c_line_no >= Len(st) THEN Outcome(st, col, ln, TRUE)
       ELSE LET line == st[c_line_no + 1]
            IN IF Len(line) # 0 /\ c_column > 0
               THEN Outcome([st EXCEPT ![c_line_no + 1] =
                                SliceTo(line, c_column - 1) \o SliceFrom(line, c_column)],
                            c_column - 1, ln, FALSE)
               ELSE IF c_line_no # 0
               THEN LET deleted == DelAt(st, c_line_no)
                        new_line_no == c_line_no - 1
                    IN Outcome(deleted, Len(deleted[new_line_no + 1]), new_line_no, FALSE)
               ELSE Outcome(st, col, ln, FALSE)

\* command_search_replace.search_and_replace_action: the buffer is
\* rewritten before state[c_line_no] is read.
search_and_replace_action(search, replace, st, carried, col, ln) ==
    LET c_column == carried[1]
        c_line_no == carried[2]
        replaced == search_and_replace(st, search, replace)
    IN IF c_line_no >= Len(replaced) THEN Outcome(replaced, col, ln, TRUE)
       ELSE Outcome(replaced, clamp(0, Len(replaced[c_line_no + 1]), c_column),
                    c_line_no, FALSE)

\* What buffer_action is called with: an action (a function in the code,
\* here a value naming it and what its closure captured) or one of the
\* three special constants.
ACTION_NOOP == [kind |-> "ACTION_NOOP", k |-> 0, search |-> <<>>, replace |-> <<>>]
ACTION_UNDO == [kind |-> "ACTION_UNDO", k |-> 0, search |-> <<>>, replace |-> <<>>]
ACTION_REDO == [kind |-> "ACTION_REDO", k |-> 0, search |-> <<>>, replace |-> <<>>]
KeyAction(k) == [kind |-> "key_action", k |-> k, search |-> <<>>, replace |-> <<>>]
NewlineAction == [kind |-> "action_newline", k |-> 0, search |-> <<>>, replace |-> <<>>]
BackspaceAction == [kind |-> "action_backspace", k |-> 0, search |-> <<>>, replace |-> <<>>]
SearchReplaceAction(search, replace) ==
    [kind |-> "search_and_replace_action", k |-> 0, search |-> search, replace |-> replace]

\* new_undoable.run_action: action(state, carried_state)
run_action(entry, st, col, ln) ==
    LET a == entry.action
        carried == entry.carried
    IN CASE a.kind = "key_action" -> key_action(a.k, st, carried, col, ln)
         [] a.kind = "action_newline" -> action_newline(st, carried, col, ln)
         [] a.kind = "action_backspace" -> action_backspace(st, carried, col, ln)
         [] a.kind = "search_and_replace_action" ->
                search_and_replace_action(a.search, a.replace, st, carried, col, ln)

\* new_undoable.remake_state: a fresh copy of the starting state with the
\* entries of hist run on it in order; the first raise ends it.
RECURSIVE replay(_, _)
replay(hist, acc) ==
    IF hist = <<>> \/ acc.raised THEN acc
    ELSE replay(Tail(hist), run_action(Head(hist), acc.state, acc.column, acc.line_no))

remake_state(start, hist, col, ln) == replay(hist, Outcome(start, col, ln, FALSE))

----------------------------------------------------------------------------
(* new_undoable: the Action Log.                                           *)

\* What one call of undoable leaves: the log, the live cursor (which the
\* actions it ran have written) and whether the call raised.
LogResult(start, st, hist, redo, col, ln, raised) ==
    [starting_state |-> start, state |-> st, history |-> hist, redo_stack |-> redo,
     column |-> col, line_no |-> ln, raised |-> raised]

\* new_undoable(starting_state, carried_state_gen): the log as constructed.
new_undoable(start, col, ln) == LogResult(start, start, <<>>, <<>>, col, ln, FALSE)

\* The ACTION_UNDO branch without remake_state().
undo_branch_without_remake(log) ==
    IF Len(log.history) > 0
    THEN [log EXCEPT !.history = SubSeq(log.history, 1, Len(log.history) - 1),
                     !.redo_stack = Append(log.redo_stack,
                                           log.history[Len(log.history)])]
    ELSE log

\* undoable, the ACTION_UNDO branch: pop History onto the Redo Stack and
\* remake the state.
undo_branch(log) ==
    IF Len(log.history) > 0
    THEN LET undoed == log.history[Len(log.history)]
             popped == SubSeq(log.history, 1, Len(log.history) - 1)
             r == remake_state(log.starting_state, popped, log.column, log.line_no)
         IN LogResult(log.starting_state, r.state, popped, Append(log.redo_stack, undoed),
                      r.column, r.line_no, r.raised)
    ELSE log

\* new_undoable.remember_action: run_action, then history.append; a raise
\* in run_action leaves history as it was.
remember_action(log, entry) ==
    LET r == run_action(entry, log.state, log.column, log.line_no)
    IN LogResult(log.starting_state, r.state,
                 IF r.raised THEN log.history ELSE Append(log.history, entry),
                 log.redo_stack, r.column, r.line_no, r.raised)

\* The ACTION_REDO branch appending the popped entry to History without
\* running it.
redo_branch_without_run(log) ==
    IF Len(log.redo_stack) > 0
    THEN LET redo == log.redo_stack[Len(log.redo_stack)]
             popped == SubSeq(log.redo_stack, 1, Len(log.redo_stack) - 1)
         IN [log EXCEPT !.redo_stack = popped, !.history = Append(log.history, redo)]
    ELSE log

\* The ACTION_REDO branch repeating the last action of History when the
\* Redo Stack is empty.
redo_branch_repeating_last(log) ==
    IF Len(log.redo_stack) > 0
    THEN remember_action([log EXCEPT !.redo_stack =
                              SubSeq(log.redo_stack, 1, Len(log.redo_stack) - 1)],
                         log.redo_stack[Len(log.redo_stack)])
    ELSE IF Len(log.history) > 0
    THEN remember_action(log, log.history[Len(log.history)])
    ELSE log

\* The ACTION_REDO branch re-running the popped action with the carried
\* state of the live cursor instead of the stored one.
redo_branch_with_live_cursor(log) ==
    IF Len(log.redo_stack) > 0
    THEN remember_action([log EXCEPT !.redo_stack =
                              SubSeq(log.redo_stack, 1, Len(log.redo_stack) - 1)],
                         [action |-> log.redo_stack[Len(log.redo_stack)].action,
                          carried |-> <<log.column, log.line_no>>])
    ELSE log

\* undoable, the ACTION_REDO branch: pop the Redo Stack and remember the
\* popped entry, with the carried state it holds.
redo_branch(log) ==
    IF Len(log.redo_stack) > 0
    THEN LET redo == log.redo_stack[Len(log.redo_stack)]
             popped == SubSeq(log.redo_stack, 1, Len(log.redo_stack) - 1)
         IN remember_action([log EXCEPT !.redo_stack = popped], redo)
    ELSE log

\* The commit branch with "redo_stack = []" left out.
commit_branch_keeping_redo(log, action) ==
    remember_action(log, [action |-> action, carried |-> <<log.column, log.line_no>>])

\* undoable, the last branch: remember (action, carried_state_gen()), then
\* empty the Redo Stack.
commit_branch(log, action) ==
    LET r == remember_action(log, [action |-> action,
                                   carried |-> <<log.column, log.line_no>>])
    IN IF r.raised THEN r ELSE [r EXCEPT !.redo_stack = <<>>]

\* undoable remaking the state on ACTION_NOOP as it does on ACTION_UNDO.
undoable_remaking_on_noop(log, action) ==
    IF action = ACTION_UNDO THEN undo_branch(log)
    ELSE IF action = ACTION_REDO THEN redo_branch(log)
    ELSE IF action # ACTION_NOOP THEN commit_branch(log, action)
    ELSE LET r == remake_state(log.starting_state, log.history, log.column, log.line_no)
         IN [log EXCEPT !.state = r.state, !.column = r.column,
                        !.line_no = r.line_no, !.raised = r.raised]

\* new_undoable.undoable(action) on the log `log`, whose column and line_no
\* are the live cursor at the call.
undoable(log, action) ==
    IF action = ACTION_UNDO THEN undo_branch(log)
    ELSE IF action = ACTION_REDO THEN redo_branch(log)
    ELSE IF action # ACTION_NOOP THEN commit_branch(log, action)
    ELSE log

\* The Action Log and the live cursor of the current state.
Log == LogResult(starting_state, state, history, redo_stack, column, line_no, FALSE)

\* buffer_action(action) as a step: the log and the cursor become what
\* undoable leaves; an exception it raises is caught nowhere and ends the
\* process.
buffer_action(action) ==
    LET r == undoable(Log, action)
    IN /\ starting_state' = r.starting_state
       /\ state' = r.state
       /\ history' = r.history
       /\ redo_stack' = r.redo_stack
       /\ column' = r.column
       /\ line_no' = r.line_no
       /\ status' = IF r.raised THEN "crashed" ELSE status

----------------------------------------------------------------------------
(* The dispatch table modes[mode][k], as built by main: the generated      *)
(* bindings for k in range(255), then the explicit ones written over them. *)

\* The test of generate_generic_key and generate_command_keypress_function.
IsGenericKey(k) == (32 <= k /\ k < 127) \/ (128 <= k /\ k < 256)

\* The handler modes[mode][k] names; "KeyError" when the table has no k.
Binding(mode, k) ==
    IF k \notin 0..(255 - 1) THEN "KeyError"
    ELSE IF mode = "insert" THEN
        CASE k = 10 -> "action_newline"
          [] k = 13 -> "no_op"
          [] k = 27 -> "set_mode_normal"
          [] k = 127 -> "action_backspace"
          [] k = 26 -> "ACTION_UNDO"
          [] k = 24 -> "ACTION_REDO"
          [] OTHER -> IF IsGenericKey(k) THEN "key_action" ELSE "no_op"
    ELSE IF mode = "normal" THEN
        CASE k = 105 -> "set_mode_insert"
          [] k = 58 -> "set_mode_command"
          [] k = 104 -> "move_cursor"
          [] k = 108 -> "move_cursor"
          [] k = 106 -> "move_cursor"
          [] k = 107 -> "move_cursor"
          [] k = 26 -> "ACTION_UNDO"
          [] k = 24 -> "ACTION_REDO"
          [] OTHER -> "no_op"
    ELSE
        CASE k = 27 -> "set_mode_normal"
          [] k = 10 -> "run_command"
          [] k = 13 -> "no_op"
          [] k = 127 -> "command_mode_backspace"
          [] OTHER -> IF IsGenericKey(k) THEN "keypress_function" ELSE "no_op"

\* The (c, l) of the move_cursor binding of a normal-mode key: h, l, j, k.
MoveOf(k) ==
    CASE k = 104 -> <<-1, 0>>
      [] k = 108 -> <<1, 0>>
      [] k = 106 -> <<0, 1>>
      [] k = 107 -> <<0, -1>>

\* move_cursor(c, l): the cursor <<column, line_no>> it leaves on buffer st.
move_cursor(st, col, ln, c, l) ==
    LET new_line_no == clamp(0, Len(st) - 1, ln + l)
    IN <<clamp(0, Len(st[new_line_no + 1]), col + c), new_line_no>>

----------------------------------------------------------------------------
(* The Command Registry.  Names are strings of character codes.            *)

CmdQ == <<113>>
CmdW == <<119>>
CmdF == <<102>>
CmdFile == <<102, 105, 108, 101>>
CmdDebug == <<100, 101, 98, 117, 103>>
CmdSearch == <<47>>
CmdS == <<115>>

\* The keys of the commands dict.
commands == {CmdQ, CmdW, CmdF, CmdFile, CmdDebug, CmdSearch, CmdS}

\* The scan preferring the longest registered prefix.
ResolveLongest(cmd) ==
    LET hits == {i \in 0..Len(cmd) : SliceTo(cmd, i) \in commands}
    IN IF hits = {} THEN -1 ELSE CHOOSE i \in hits : \A j \in hits : i >= j

\* run_command's scan: the first i in 0..len(cmd) with cmd[:i] a registered
\* name, or -1 when the loop ends without one.
Resolve(cmd) ==
    LET hits == {i \in 0..Len(cmd) : SliceTo(cmd, i) \in commands}
    IN IF hits = {} THEN -1 ELSE CHOOSE i \in hits : \A j \in hits : i <= j

\* The handler the commands dict holds under a registered name.
HandlerOf(name) ==
    CASE name = CmdQ -> "exit"
      [] name = CmdW -> "command_w"
      [] name = CmdF -> "command_file"
      [] name = CmdFile -> "command_file"
      [] name = CmdDebug -> "command_debug"
      [] name = CmdSearch -> "command_search"
      [] name = CmdS -> "command_search_replace"

\* run_command: the call "commands[cmd[:i]](cmd[i:])" it makes on cmd, as
\* <<registered name, args>>; <<>> when the scan ends without a call.
run_command_call(cmd) ==
    IF Resolve(cmd) = -1 THEN <<>>
    ELSE <<SliceTo(cmd, Resolve(cmd)), SliceFrom(cmd, Resolve(cmd))>>

\* command_search(args): zero-based index of the first line of st that
\* re.search matches, or -1.
FirstMatchingLine(args, st) ==
    LET hits == {i \in 0..(Len(st) - 1) : re_search(args, st[i + 1]) # -1}
    IN IF hits = {} THEN -1 ELSE CHOOSE i \in hits : \A j \in hits : i <= j

----------------------------------------------------------------------------
(* What the model types and reads.                                         *)

\* Keys pressed in insert mode: a, newline, backspace, escape, Ctrl-Z,
\* Ctrl-X, NUL (a generated no_op) and 255 (not in the table).
InsertKeys == {97, 10, 127, 27, 26, 24, 0, 255}

\* Keys pressed in normal mode: h j k l, i, :, Ctrl-Z, Ctrl-X, x (no_op), 255.
NormalKeys == {104, 106, 107, 108, 105, 58, 26, 24, 120, 255}

\* Keys pressed in command mode: newline, return (no_op), escape,
\* backspace, 255, and the characters of the commands typed: s / a in
\* Spec, f space in SpecFile.
CommandControlKeys == {10, 13, 27, 127, 255}
CommandKeys == {115, 47, 97} \cup CommandControlKeys
FileCommandKeys == {102, 32} \cup CommandControlKeys

\* The contents a file opened by the file command may have.
FileContents == {<<>>, <<97, 10>>}

\* The contents the file named on the command line may have.
ArgvContents == {<<>>, <<97>>}

\* main: the lines of the file named on the command line.
ArgvLines(contents) ==
    LET lines == SplitWhitespace(contents)
    IN IF Len(lines) = 0 THEN Append(lines, <<>>) ELSE lines

----------------------------------------------------------------------------
(* The handlers, one action each.  k is the key read by the main loop.     *)

Running == status = "running"

LogUnchanged == UNCHANGED <<starting_state, state, history, redo_stack>>
CursorUnchanged == UNCHANGED <<column, line_no>>

\* modes[current_mode][ord(key)] with the key not in the table: KeyError.
UnboundKey(k) ==
    /\ Running
    /\ Binding(current_mode, k) = "KeyError"
    /\ key' = k
    /\ status' = "crashed"
    /\ LogUnchanged /\ CursorUnchanged
    /\ UNCHANGED <<current_mode, command_buffer, is_debug_mode>>

\* no_op
NoOpKey(k) ==
    /\ Running
    /\ Binding(current_mode, k) = "no_op"
    /\ key' = k
    /\ LogUnchanged /\ CursorUnchanged
    /\ UNCHANGED <<current_mode, command_buffer, is_debug_mode, status>>

\* generate_generic_key(k).handler: buffer_action(key_action)
InsertChar(k) ==
    /\ Running
    /\ Binding(current_mode, k) = "key_action"
    /\ key' = k
    /\ buffer_action(KeyAction(k))
    /\ UNCHANGED <<current_mode, command_buffer, is_debug_mode>>

\* lambda: buffer_action(action_newline)
InsertNewline(k) ==
    /\ Running
    /\ Binding(current_mode, k) = "action_newline"
    /\ key' = k
    /\ buffer_action(NewlineAction)
    /\ UNCHANGED <<current_mode, command_buffer, is_debug_mode>>

\* lambda: buffer_action(action_backspace)
InsertBackspace(k) ==
    /\ Running
    /\ Binding(current_mode, k) = "action_backspace"
    /\ key' = k
    /\ buffer_action(BackspaceAction)
    /\ UNCHANGED <<current_mode, command_buffer, is_debug_mode>>

\* lambda: buffer_action(ACTION_UNDO)
Undo(k) ==
    /\ Running
    /\ Binding(current_mode, k) = "ACTION_UNDO"
    /\ key' = k
    /\ buffer_action(ACTION_UNDO)
    /\ UNCHANGED <<current_mode, command_buffer, is_debug_mode>>

\* lambda: buffer_action(ACTION_REDO)
Redo(k) ==
    /\ Running
    /\ Binding(current_mode, k) = "ACTION_REDO"
    /\ key' = k
    /\ buffer_action(ACTION_REDO)
    /\ UNCHANGED <<current_mode, command_buffer, is_debug_mode>>

\* lambda: set_mode(...)
SetMode(k) ==
    /\ Running
    /\ Binding(current_mode, k) \in {"set_mode_normal", "set_mode_insert", "set_mode_command"}
    /\ key' = k
    /\ current_mode' = CASE Binding(current_mode, k) = "set_mode_normal" -> "normal"
                         [] Binding(current_mode, k) = "set_mode_insert" -> "insert"
                         [] Binding(current_mode, k) = "set_mode_command" -> "command"
    /\ LogUnchanged /\ CursorUnchanged
    /\ UNCHANGED <<command_buffer, is_debug_mode, status>>

\* lambda: move_cursor(c, l); its buffer_action(ACTION_NOOP) returns state.
MoveCursor(k) ==
    /\ Running
    /\ Binding(current_mode, k) = "move_cursor"
    /\ key' = k
    /\ LET noop == undoable(Log, ACTION_NOOP)
           moved == move_cursor(noop.state, column, line_no, MoveOf(k)[1], MoveOf(k)[2])
       IN /\ starting_state' = noop.starting_state
          /\ state' = noop.state
          /\ history' = noop.history
          /\ redo_stack' = noop.redo_stack
          /\ column' = moved[1]
          /\ line_no' = moved[2]
    /\ UNCHANGED <<current_mode, command_buffer, is_debug_mode, status>>

\* generate_command_keypress_function(k).keypress_function
CommandKeypress(k) ==
    /\ Running
    /\ Binding(current_mode, k) = "keypress_function"
    /\ key' = k
    /\ command_buffer' = Append(command_buffer, k)
    /\ LogUnchanged /\ CursorUnchanged
    /\ UNCHANGED <<current_mode, is_debug_mode, status>>

\* command_mode_backspace
CommandBackspace(k) ==
    /\ Running
    /\ Binding(current_mode, k) = "command_mode_backspace"
    /\ key' = k
    /\ command_buffer' = IF command_buffer # <<>>
                         THEN SubSeq(command_buffer, 1, Len(command_buffer) - 1)
                         ELSE command_buffer
    /\ LogUnchanged /\ CursorUnchanged
    /\ UNCHANGED <<current_mode, is_debug_mode, status>>

\* get_key_or_exit, the read interrupted (Ctrl-C): KeyboardInterrupt is
\* caught and exit() ends the process; no key is assigned or dispatched.
ReadInterrupted ==
    /\ Running
    /\ status' = "exited"
    /\ LogUnchanged /\ CursorUnchanged
    /\ UNCHANGED <<current_mode, command_buffer, is_debug_mode, key>>

\* get_key_or_exit at the end of the input: sys.stdin.read(1) returns "",
\* key holds no character (-1) and ord(key) raises TypeError.
ReadEndOfInput ==
    /\ Running
    /\ key' = -1
    /\ status' = "crashed"
    /\ LogUnchanged /\ CursorUnchanged
    /\ UNCHANGED <<current_mode, command_buffer, is_debug_mode>>

----------------------------------------------------------------------------
(* The command handlers, as run_command calls them: each is followed by    *)
(* set_mode("normal") when it returns.  A notice is input(...): it blocks  *)
(* until acknowledged and changes nothing, or raises when the read is      *)
(* interrupted (KeyboardInterrupt) or the input has ended (EOFError).      *)

\* An exception leaves the handler and run_command: the process ends in
\* command mode, before set_mode("normal").
Raises ==
    /\ status' = "crashed"
    /\ LogUnchanged /\ CursorUnchanged
    /\ UNCHANGED <<current_mode, is_debug_mode>>

Notice ==
    \/ /\ LogUnchanged /\ CursorUnchanged
       /\ current_mode' = "normal"
       /\ UNCHANGED <<is_debug_mode, status>>
    \/ Raises

\* "q": lambda args: exit().  sys.exit(0) ends the process inside the handler.
command_q ==
    /\ status' = "exited"
    /\ LogUnchanged /\ CursorUnchanged
    /\ UNCHANGED <<current_mode, is_debug_mode>>

\* command_w(args): a notice, or the buffer written to the file; the editor
\* state is the same either way.
command_w(args) == Notice

\* command_file(args): a notice (no or malformed argument, no such file, a
\* read error), or a new Action Log on the lines of the file with the
\* cursor at (0, 0); a file that exists and does not decode raises
\* UnicodeDecodeError out of f.read(), which "except IOError" lets through.
command_file(args) ==
    IF Len(args) = 0 \/ ~StartsWith(args, <<32>>)
    THEN Notice
    ELSE \/ Notice
         \/ SliceFrom(args, 1) # <<>> /\ Raises
         \/ /\ SliceFrom(args, 1) # <<>>
            /\ \E contents \in FileContents :
                  LET log == new_undoable(Split(contents, 10), 0, 0)
                  IN /\ starting_state' = log.starting_state
                     /\ state' = log.state
                     /\ history' = log.history
                     /\ redo_stack' = log.redo_stack
                     /\ column' = 0
                     /\ line_no' = 0
            /\ current_mode' = "normal"
            /\ UNCHANGED <<is_debug_mode, status>>

\* command_debug(args)
command_debug(args) ==
    /\ is_debug_mode' = ~is_debug_mode
    /\ current_mode' = "normal"
    /\ LogUnchanged /\ CursorUnchanged
    /\ UNCHANGED status

\* command_search(args): the cursor moves to the first match, or a notice.
command_search(args) ==
    LET buffer == undoable(Log, ACTION_NOOP).state
        index == FirstMatchingLine(args, buffer)
    IN IF index # -1
       THEN /\ line_no' = index
            /\ column' = re_search(args, buffer[index + 1])
            /\ current_mode' = "normal"
            /\ LogUnchanged
            /\ UNCHANGED <<is_debug_mode, status>>
       ELSE Notice

\* command_search_replace(args): "search, replace = args[1:].split("/")"
\* raises ValueError unless the split yields exactly two pieces.
command_search_replace(args) ==
    IF StartsWith(args, <<47>>)
    THEN LET pieces == Split(SliceFrom(args, 1), 47)
         IN IF Len(pieces) # 2
            THEN Raises
            ELSE /\ buffer_action(SearchReplaceAction(pieces[1], pieces[2]))
                 /\ current_mode' = IF status' = "running" THEN "normal" ELSE current_mode
                 /\ UNCHANGED is_debug_mode
    ELSE Notice

\* run_command: the Command Buffer is emptied, then the first registered
\* prefix's handler runs on the rest; with no registered prefix nothing
\* else happens.
RunCommand(k) ==
    /\ Running
    /\ Binding(current_mode, k) = "run_command"
    /\ key' = k
    /\ command_buffer' = <<>>
    /\ LET cmd == command_buffer
           i == Resolve(cmd)
           handler == HandlerOf(SliceTo(cmd, i))
           args == SliceFrom(cmd, i)
       IN IF i = -1
          THEN /\ LogUnchanged /\ CursorUnchanged
               /\ UNCHANGED <<current_mode, is_debug_mode, status>>
          ELSE CASE handler = "exit" -> command_q
                 [] handler = "command_w" -> command_w(args)
                 [] handler = "command_file" -> command_file(args)
                 [] handler = "command_debug" -> command_debug(args)
                 [] handler = "command_search" -> command_search(args)
                 [] handler = "command_search_replace" -> command_search_replace(args)

----------------------------------------------------------------------------
(* The editor.                                                             *)

\* No round trip under way.
NoTrip ==
    [phase |-> "edit", n |-> 0, left |-> 0, state |-> <<>>, history |-> <<>>,
     column |-> 0, line_no |-> 0]

\* main up to the first key read: the Action Log on [""], or on the lines
\* of the file named on the command line; cursor (0, 0), insert mode; no
\* key held (-1).  The process may also end before the first read: exited
\* when the splash screen's read is interrupted (no file named, the Action
\* Log on [""]), crashed when the file named does not exist (line 349 calls
\* buffer_action, which was never bound) or does not decode (f.read() at
\* line 341); in a crashed start no Action Log was made, and the variables
\* hold what they hold when no file is named.
Init ==
    /\ \/ /\ starting_state \in {<<  <<>>  >>} \cup {ArgvLines(c) : c \in ArgvContents}
          /\ status = "running"
       \/ /\ starting_state = <<  <<>>  >>
          /\ status \in {"exited", "crashed"}
    /\ state = starting_state
    /\ history = <<>>
    /\ redo_stack = <<>>
    /\ column = 0
    /\ line_no = 0
    /\ current_mode = "insert"
    /\ command_buffer = <<>>
    /\ is_debug_mode = FALSE
    /\ key = -1
    /\ calls = <<>>
    /\ trip = NoTrip

\* The states the model explores: a key whose handler would leave these
\* bounds is not pressed.
WithinBounds(maxHist, maxCmd, maxCol) ==
    /\ Len(history) <= maxHist
    /\ Len(command_buffer) <= maxCmd
    /\ column <= maxCol

\* The keys the model presses in each mode.
Typed(commandKeys) ==
    [insert |-> InsertKeys, normal |-> NormalKeys, command |-> commandKeys]

\* The keys pressed where command mode is not entered: b as well, no ":".
EditTyped ==
    [insert |-> InsertKeys \cup {98}, normal |-> NormalKeys \ {58}, command |-> {}]

AllKeys == InsertKeys \cup NormalKeys \cup CommandKeys \cup FileCommandKeys \cup {98}

\* One turn of the main loop: read a key, call modes[current_mode][ord(key)].
KeyPress(k, typed, maxHist, maxCmd, maxCol) ==
    \/ k \in typed[current_mode] /\ UnboundKey(k)
          /\ UNCHANGED <<calls, trip>>
    \/ k \in typed[current_mode] /\ NoOpKey(k)
          /\ UNCHANGED <<calls, trip>>
    \/ k \in typed[current_mode] /\ InsertChar(k)
          /\ WithinBounds(maxHist, maxCmd, maxCol)'
          /\ UNCHANGED <<calls, trip>>
    \/ k \in typed[current_mode] /\ InsertNewline(k)
          /\ WithinBounds(maxHist, maxCmd, maxCol)'
          /\ UNCHANGED <<calls, trip>>
    \/ k \in typed[current_mode] /\ InsertBackspace(k)
          /\ WithinBounds(maxHist, maxCmd, maxCol)'
          /\ UNCHANGED <<calls, trip>>
    \/ k \in typed[current_mode] /\ Undo(k)
          /\ UNCHANGED <<calls, trip>>
    \/ k \in typed[current_mode] /\ Redo(k)
          /\ WithinBounds(maxHist, maxCmd, maxCol)'
          /\ UNCHANGED <<calls, trip>>
    \/ k \in typed[current_mode] /\ SetMode(k)
          /\ UNCHANGED <<calls, trip>>
    \/ k \in typed[current_mode] /\ MoveCursor(k)
          /\ UNCHANGED <<calls, trip>>
    \/ k \in typed[current_mode] /\ CommandKeypress(k)
          /\ WithinBounds(maxHist, maxCmd, maxCol)'
          /\ UNCHANGED <<calls, trip>>
    \/ k \in typed[current_mode] /\ CommandBackspace(k)
          /\ UNCHANGED <<calls, trip>>
    \/ k \in typed[current_mode] /\ RunCommand(k)
          /\ WithinBounds(maxHist, maxCmd, maxCol)'
          /\ UNCHANGED <<calls, trip>>

\* The whole editor, typing search and search-and-replace commands; every
\* read yields a key.
Next == \E k \in AllKeys : KeyPress(k, Typed(CommandKeys), MaxHist, MaxCmd, MaxCol)

Spec == Init /\ [][Next]_vars

\* The whole editor, typing file commands; a read yields a key, is
\* interrupted, or finds the input ended.
NextFile ==
    \/ \E k \in AllKeys :
          KeyPress(k, Typed(FileCommandKeys), FileMaxHist, FileMaxCmd, FileMaxCol)
    \/ ReadInterrupted /\ UNCHANGED <<calls, trip>>
    \/ ReadEndOfInput /\ UNCHANGED <<calls, trip>>

SpecFile == Init /\ [][NextFile]_vars

\* The editor in insert and normal mode: the keys that do not lead to
\* command mode.
EditKeyPress(k, maxHist, maxCol) ==
    \/ k \in EditTyped[current_mode] /\ UnboundKey(k)
          /\ UNCHANGED <<calls, trip>>
    \/ k \in EditTyped[current_mode] /\ NoOpKey(k)
          /\ UNCHANGED <<calls, trip>>
    \/ k \in EditTyped[current_mode] /\ InsertChar(k)
          /\ WithinBounds(maxHist, 0, maxCol)'
          /\ UNCHANGED <<calls, trip>>
    \/ k \in EditTyped[current_mode] /\ InsertNewline(k)
          /\ WithinBounds(maxHist, 0, maxCol)'
          /\ UNCHANGED <<calls, trip>>
    \/ k \in EditTyped[current_mode] /\ InsertBackspace(k)
          /\ WithinBounds(maxHist, 0, maxCol)'
          /\ UNCHANGED <<calls, trip>>
    \/ k \in EditTyped[current_mode] /\ Undo(k)
          /\ UNCHANGED <<calls, trip>>
    \/ k \in EditTyped[current_mode] /\ Redo(k)
          /\ WithinBounds(maxHist, 0, maxCol)'
          /\ UNCHANGED <<calls, trip>>
    \/ k \in EditTyped[current_mode] /\ SetMode(k)
          /\ UNCHANGED <<calls, trip>>
    \/ k \in EditTyped[current_mode] /\ MoveCursor(k)
          /\ UNCHANGED <<calls, trip>>

NextEdit == \E k \in AllKeys : EditKeyPress(k, EditMaxHist, EditMaxCol)

SpecEdit == Init /\ [][NextEdit]_vars

\* Insert mode, escape and i, with Ctrl-Z and Ctrl-X in both modes: no b,
\* no moves, no key that is no_op or unbound.  calls records the latest
\* five calls of buffer_action that were not ACTION_NOOP: "commit" (an
\* action), "undo", "redo".
Recent(s) == IF Len(s) > 5 THEN Tail(s) ELSE s

CallsTyped ==
    [insert |-> InsertKeys \ {0, 255}, normal |-> {105, 26, 24},
     command |-> {}]

CallsKeyPress(k, maxHist, maxCol) ==
    \/ k \in CallsTyped[current_mode] /\ InsertChar(k)
          /\ WithinBounds(maxHist, 0, maxCol)'
          /\ calls' = Recent(Append(calls, "commit")) /\ UNCHANGED trip
    \/ k \in CallsTyped[current_mode] /\ InsertNewline(k)
          /\ WithinBounds(maxHist, 0, maxCol)'
          /\ calls' = Recent(Append(calls, "commit")) /\ UNCHANGED trip
    \/ k \in CallsTyped[current_mode] /\ InsertBackspace(k)
          /\ WithinBounds(maxHist, 0, maxCol)'
          /\ calls' = Recent(Append(calls, "commit")) /\ UNCHANGED trip
    \/ k \in CallsTyped[current_mode] /\ Undo(k)
          /\ calls' = Recent(Append(calls, "undo")) /\ UNCHANGED trip
    \/ k \in CallsTyped[current_mode] /\ Redo(k)
          /\ WithinBounds(maxHist, 0, maxCol)'
          /\ calls' = Recent(Append(calls, "redo")) /\ UNCHANGED trip
    \/ k \in CallsTyped[current_mode] /\ SetMode(k)
          /\ UNCHANGED <<calls, trip>>

NextCalls == \E k \in AllKeys : CallsKeyPress(k, EditMaxHist, EditMaxCol)

SpecCalls == Init /\ [][NextCalls]_vars

----------------------------------------------------------------------------
(* The round trip: N actions committed with cursor moves and mode changes  *)
(* between them and no UNDO or REDO, then Ctrl-Z N times, then Ctrl-X N    *)
(* times.  trip holds the buffer, cursor and History as they were after    *)
(* the Nth commit.                                                         *)

\* SpecRoundTrip: most actions committed.
TripMaxHist == 3

\* Keys pressed while committing: insert and normal mode without Ctrl-Z
\* and Ctrl-X.
TripEdit(k) ==
    /\ trip.phase = "edit"
    /\ k \in EditTyped[current_mode] \ {26, 24}
    /\ \/ InsertChar(k)
       \/ InsertNewline(k)
       \/ InsertBackspace(k)
       \/ SetMode(k)
       \/ MoveCursor(k)
    /\ Len(history') <= TripMaxHist
    /\ UNCHANGED <<calls, trip>>

\* The keys that commit an action in insert mode.
CommitKeys == {97, 98, 10, 127}

\* The Nth commit is the last one and has just been made: remember what
\* it left.
TripStart ==
    /\ trip.phase = "edit"
    /\ Running
    /\ Len(history) > 0
    /\ current_mode = "insert"
    /\ key \in CommitKeys
    /\ trip' = [phase |-> "undo", n |-> Len(history), left |-> Len(history),
                state |-> state, history |-> history,
                column |-> column, line_no |-> line_no]
    /\ UNCHANGED <<starting_state, state, history, redo_stack, column, line_no,
                   current_mode, command_buffer, is_debug_mode, key, status, calls>>

\* Ctrl-Z, N times.
TripUndo ==
    /\ trip.phase = "undo"
    /\ Undo(26)
    /\ trip' = IF trip.left = 1
               THEN [trip EXCEPT !.phase = "redo", !.left = trip.n]
               ELSE [trip EXCEPT !.left = trip.left - 1]
    /\ UNCHANGED calls

\* Ctrl-X, N times.
TripRedo ==
    /\ trip.phase = "redo"
    /\ Redo(24)
    /\ trip' = IF trip.left = 1
               THEN [trip EXCEPT !.phase = "done", !.left = 0]
               ELSE [trip EXCEPT !.left = trip.left - 1]
    /\ UNCHANGED calls

NextRoundTrip ==
    \/ \E k \in AllKeys : TripEdit(k)
    \/ TripStart
    \/ TripUndo
    \/ TripRedo

SpecRoundTrip == Init /\ [][NextRoundTrip]_vars

(* Command mode alone: command lines over the letters of "file" and the   *)
(* space are typed, edited and submitted; calls holds the call that the   *)
(* key just handled made, if it was a submission.                          *)

\* SpecResolve: longest command line typed.
ResolveMaxCmd == 6

\* Keys pressed: escape in insert mode, ":" in normal mode, and in command
\* mode f i l e, space, newline, escape and backspace.
ResolveTyped ==
    [insert |-> {27}, normal |-> {58},
     command |-> {102, 105, 108, 101, 32, 10, 27, 127}]

ResolveKeys == {27, 58, 102, 105, 108, 101, 32, 10, 127}

ResolveKeyPress(k) ==
    \/ k \in ResolveTyped[current_mode] /\ SetMode(k)
          /\ calls' = <<>> /\ UNCHANGED trip
    \/ k \in ResolveTyped[current_mode] /\ CommandKeypress(k)
          /\ Len(command_buffer') <= ResolveMaxCmd
          /\ calls' = <<>> /\ UNCHANGED trip
    \/ k \in ResolveTyped[current_mode] /\ CommandBackspace(k)
          /\ calls' = <<>> /\ UNCHANGED trip
    \/ k \in ResolveTyped[current_mode] /\ RunCommand(k)
          /\ calls' = run_command_call(command_buffer)
          /\ UNCHANGED trip

NextResolve == \E k \in ResolveKeys : ResolveKeyPress(k)

SpecResolve == Init /\ [][NextResolve]_vars

----------------------------------------------------------------------------
(* Insert mode alone, from the first key on: a b c d (each at most once),  *)
(* newline and Ctrl-Z are pressed; calls holds every key pressed so far,   *)
(* in order.                                                               *)

\* SpecScenario: most keys pressed.
ScenarioMaxKeys == 6

ScenarioKeys == {97, 98, 99, 100, 10, 26}

ScenarioKeyPress(k) ==
    \/ current_mode = "insert" /\ InsertChar(k)
          /\ Len(calls) < ScenarioMaxKeys
          /\ (\A i \in 1..Len(calls) : calls[i] # k)
          /\ calls' = Append(calls, k) /\ UNCHANGED trip
    \/ current_mode = "insert" /\ InsertNewline(k)
          /\ Len(calls) < ScenarioMaxKeys
          /\ calls' = Append(calls, k) /\ UNCHANGED trip
    \/ current_mode = "insert" /\ Undo(k)
          /\ Len(calls) < ScenarioMaxKeys
          /\ calls' = Append(calls, k) /\ UNCHANGED trip

NextScenario == \E k \in ScenarioKeys : ScenarioKeyPress(k)

SpecScenario == Init /\ [][NextScenario]_vars

----------------------------------------------------------------------------
(* The three modes without submissions: edits, UNDO and REDO, mode         *)
(* changes, moves, and typing and backspace in command mode.  calls holds  *)
(* what the key just handled found: its binding, the cursor and the        *)
(* length of the Redo Stack before it ran.                                 *)

\* SpecFrame: longest History, longest command line and largest cursor
\* column.
FrameMaxHist == 1
FrameMaxCmd == 1
FrameMaxCol == 2

FrameTyped ==
    [insert |-> {97, 10, 127, 27, 26, 24},
     normal |-> {104, 106, 107, 108, 105, 58, 26, 24},
     command |-> {97, 27, 127}]

\* What calls holds after key k is handled.
Found(k) == <<Binding(current_mode, k), column, line_no, Len(redo_stack)>>

FrameKeyPress(k) ==
    \/ k \in FrameTyped[current_mode] /\ InsertChar(k)
          /\ WithinBounds(FrameMaxHist, FrameMaxCmd, FrameMaxCol)'
          /\ calls' = Found(k) /\ UNCHANGED trip
    \/ k \in FrameTyped[current_mode] /\ InsertNewline(k)
          /\ WithinBounds(FrameMaxHist, FrameMaxCmd, FrameMaxCol)'
          /\ calls' = Found(k) /\ UNCHANGED trip
    \/ k \in FrameTyped[current_mode] /\ InsertBackspace(k)
          /\ WithinBounds(FrameMaxHist, FrameMaxCmd, FrameMaxCol)'
          /\ calls' = Found(k) /\ UNCHANGED trip
    \/ k \in FrameTyped[current_mode] /\ Undo(k)
          /\ calls' = Found(k) /\ UNCHANGED trip
    \/ k \in FrameTyped[current_mode] /\ Redo(k)
          /\ WithinBounds(FrameMaxHist, FrameMaxCmd, FrameMaxCol)'
          /\ calls' = Found(k) /\ UNCHANGED trip
    \/ k \in FrameTyped[current_mode] /\ SetMode(k)
          /\ calls' = Found(k) /\ UNCHANGED trip
    \/ k \in FrameTyped[current_mode] /\ MoveCursor(k)
          /\ calls' = Found(k) /\ UNCHANGED trip
    \/ k \in FrameTyped[current_mode] /\ CommandKeypress(k)
          /\ WithinBounds(FrameMaxHist, FrameMaxCmd, FrameMaxCol)'
          /\ calls' = Found(k) /\ UNCHANGED trip
    \/ k \in FrameTyped[current_mode] /\ CommandBackspace(k)
          /\ calls' = Found(k) /\ UNCHANGED trip

NextFrame == \E k \in AllKeys : FrameKeyPress(k)

SpecFrame == Init /\ [][NextFrame]_vars

----------------------------------------------------------------------------
(* The claims.                                                             *)

\* C1: the cursor is inside the buffer: 0 <= line < len(buffer) and
\* 0 <= column <= len(buffer[line]), in every state, those right after an
\* UNDO included.
C1_CursorInsideBuffer ==
    /\ 0 <= line_no
    /\ line_no < Len(state)
    /\ 0 <= column
    /\ column <= Len(state[line_no + 1])

\* C2: after N commits (with cursor moves between them), N UNDOs and then
\* N REDOs, the buffer is the buffer as it was after the Nth commit,
\* History holds the same N entries in the same order, and the Redo Stack
\* is empty; nothing raises on the way.
C2_RoundTripRestoresBufferAndHistory ==
    /\ trip.phase # "edit" => status = "running"
    /\ trip.phase = "done" =>
          /\ state = trip.state
          /\ history = trip.history
          /\ Len(history) = trip.n
          /\ redo_stack = <<>>

\* C2, witness: a round trip of three commits that left more than one
\* line has ended, with the buffer and History restored.
C2_Witness ==
    /\ trip.phase = "done"
    /\ trip.n = 3
    /\ Len(trip.state) > 1
    /\ state = trip.state
    /\ history = trip.history
    /\ redo_stack = <<>>

\* C3: after N commits (with cursor moves between them), N UNDOs and then
\* N REDOs, the cursor is where it was after the Nth commit.
C3_RoundTripRestoresCursor ==
    trip.phase = "done" => (column = trip.column /\ line_no = trip.line_no)

\* C4: a step that commits a new action leaves the Redo Stack empty, and
\* a REDO that follows the calls [commit, commit, undo, commit] changes
\* neither the buffer nor History nor the Redo Stack.
C4_CommitDiscardsRedoStack ==
    [][ /\ ( /\ Binding(current_mode, key') \in
                    {"key_action", "action_newline", "action_backspace"}
             /\ history' # history )
           => redo_stack' = <<>>
        /\ ( /\ Len(calls) >= 4
             /\ SubSeq(calls, Len(calls) - 3, Len(calls)) =
                    <<"commit", "commit", "undo", "commit">>
             /\ Binding(current_mode, key') = "ACTION_REDO" )
           => UNCHANGED <<state, history, redo_stack>> ]_vars

\* C4, witness: Ctrl-X has just been handled after the calls [commit,
\* commit, undo, commit], and the Redo Stack is empty.
C4_Witness ==
    /\ calls = <<"commit", "commit", "undo", "commit", "redo">>
    /\ key = 24
    /\ status = "running"
    /\ Len(history) = 2
    /\ redo_stack = <<>>

\* C5: while the editor runs, replaying a fresh copy of the starting
\* buffer through History, each action with its stored carried state,
\* raises nothing and yields the live buffer.
C5_ReplayReproducesBuffer ==
    status = "running" =>
        LET r == remake_state(starting_state, history, column, line_no)
        IN ~r.raised /\ r.state = state

\* C5, witness: two actions are committed and one undone, the buffer
\* differs from the starting buffer, and the replay yields it.
C5_Witness ==
    /\ status = "running"
    /\ Len(history) = 1
    /\ Len(redo_stack) = 1
    /\ state # starting_state
    /\ remake_state(starting_state, history, column, line_no).state = state

\* C6: the buffer always holds at least one line, and so does the
\* starting buffer the Action Log replays from.
C6_BufferNeverEmpty == Len(state) >= 1 /\ Len(starting_state) >= 1

\* C6, witness: a file of one line and a final newline has been loaded
\* (two lines, the second empty) and a backspace has removed a line.
C6_Witness ==
    /\ starting_state = << <<97>>, <<>> >>
    /\ Len(history) = 1
    /\ history[1].action = BackspaceAction
    /\ Len(state) = 1

\* C7: a backspace committed with the cursor at column 0 of a line L > 0
\* merges line L into line L-1: one line fewer, line L-1 is the old line
\* L-1 followed by the old line L, and the cursor is at (L-1, length of
\* the old line L-1).
C7_BackspaceMergesLines ==
    [][ ( /\ status = "running"
          /\ Binding(current_mode, key') = "action_backspace"
          /\ history' # history
          /\ column = 0
          /\ line_no > 0 )
        => ( /\ Len(state') = Len(state) - 1
             /\ state'[line_no] = state[line_no] \o state[line_no + 1]
             /\ line_no' = line_no - 1
             /\ column' = Len(state[line_no]) ) ]_vars

\* C8: the Command Buffer is empty whenever the mode is not command, so
\* ":" always starts from an empty Command Buffer.
C8_CommandBufferEmptyOutsideCommandMode ==
    current_mode # "command" => command_buffer = <<>>

\* C9: submitting the Command Buffer (newline in command mode) that the
\* editor survives always leaves the mode normal and the Command Buffer
\* empty, whatever string was submitted.
C9_SubmitLeavesNormalMode ==
    [][ ( /\ status = "running"
          /\ current_mode = "command"
          /\ key' = 10
          /\ status' = "running" )
        => (current_mode' = "normal" /\ command_buffer' = <<>>) ]_vars

\* C10: dispatching a key-code in 0..255 never fails, and in insert mode
\* every byte in 32..126 and 128..255 commits an insert-character action.
C10_DispatchNeverFails ==
    [][ ( /\ status = "running"
          /\ key' \in 0..255 )
        => ( /\ status' # "crashed"
             /\ ( /\ current_mode = "insert"
                  /\ (key' \in 32..126 \/ key' \in 128..255) )
                => ( /\ Len(history') = Len(history) + 1
                     /\ history'[Len(history')].action = KeyAction(key') ) ) ]_vars

\* C11: submitting an s command whose argument is not /search/replace (no
\* leading "/", or after it a number of further "/" other than one) is
\* never fatal: the editor keeps running, in normal mode, with the buffer,
\* cursor, History and Redo Stack unchanged.  Without the leading "/" a
\* notice is shown, and the editor keeps running once it is acknowledged;
\* with it no notice is shown and nothing may end the editor.
C11_MalformedSearchReplaceIsNotFatal ==
    [][ LET args == SliceFrom(command_buffer, Resolve(command_buffer))
            survives == /\ current_mode' = "normal"
                        /\ UNCHANGED <<state, column, line_no, history, redo_stack>>
        IN ( /\ status = "running"
             /\ current_mode = "command"
             /\ key' = 10
             /\ Resolve(command_buffer) # -1
             /\ HandlerOf(SliceTo(command_buffer, Resolve(command_buffer))) =
                    "command_search_replace" )
           => /\ ~StartsWith(args, <<47>>)
                 => (status' = "running" => survives)
              /\ ( /\ StartsWith(args, <<47>>)
                   /\ Len(Split(SliceFrom(args, 1), 47)) # 2 )
                 => (status' = "running" /\ survives) ]_vars

\* C12: a normal-mode j or k leaves the cursor line at the previous line
\* +1 / -1 clamped to [0, len(buffer)-1] and the column at min(previous
\* column, length of the destination line); h and l leave the line
\* unchanged and the column at the previous column -1 / +1 clamped to
\* [0, length of the current line].
C12_MoveCursorClamps ==
    [][ ( /\ status = "running"
          /\ Binding(current_mode, key') = "move_cursor" )
        => IF key' \in {106, 107}
           THEN /\ line_no' = clamp(0, Len(state) - 1,
                                    line_no + (IF key' = 106 THEN 1 ELSE -1))
                /\ column' = Min(column, Len(state[line_no' + 1]))
           ELSE /\ line_no' = line_no
                /\ column' = clamp(0, Len(state[line_no + 1]),
                                   column + (IF key' = 108 THEN 1 ELSE -1)) ]_vars

\* C13: a submission calls the handler registered under the shortest
\* registered name that is a prefix of the submitted string, with the rest
\* of the string as its argument, whenever some registered name is a
\* prefix; "file <name>" calls the f handler with "ile <name>", and the
\* name "file" is never the one selected.
C13_ShortestPrefixResolution ==
    [][ ( /\ status = "running"
          /\ current_mode = "command"
          /\ key' = 10 )
        => LET cmd == command_buffer
               prefixes == {n \in commands : StartsWith(cmd, n)}
           IN /\ (prefixes = {}) <=> (calls' = <<>>)
              /\ prefixes # {} =>
                    /\ calls'[1] \in prefixes
                    /\ \A n \in prefixes : Len(calls'[1]) <= Len(n)
                    /\ calls'[1] \o calls'[2] = cmd
                    /\ calls'[1] # CmdFile
              /\ StartsWith(cmd, CmdFile \o <<32>>) =>
                    /\ calls'[1] = CmdF
                    /\ calls'[2] = <<105, 108, 101>> \o SliceFrom(cmd, 4) ]_vars

\* C13, witness: "file f" has been submitted and the call made was the f
\* handler's, with "ile f".
C13_Witness ==
    /\ key = 10
    /\ status = "running"
    /\ calls = <<CmdF, <<105, 108, 101, 32, 102>>>>
    /\ current_mode = "normal"

\* C14: from the buffer [""] with the cursor at (0,0) in insert mode,
\* typing a, b, enter, c, d gives the buffer ["ab","cd"] with the cursor at
\* (line 1, column 2); one UNDO then gives ["ab","c"] with the cursor at
\* (line 1, column 1), the carried state of the undone action.
C14_ScenarioTypeThenUndo ==
    [][ ( /\ starting_state = << <<>> >>
          /\ calls = <<97, 98, 10, 99, 100>> )
        => /\ state = << <<97, 98>>, <<99, 100>> >>
           /\ line_no = 1 /\ column = 2
           /\ key' = 26 =>
                 /\ status' = "running"
                 /\ state' = << <<97, 98>>, <<99>> >>
                 /\ line_no' = 1 /\ column' = 1
                 /\ <<column', line_no'>> = history[Len(history)].carried
                 /\ history' = SubSeq(history, 1, 4) ]_vars

\* C14, witness: a, b, enter, c, d and Ctrl-Z have been pressed from [""],
\* and the buffer is ["ab","c"] with the cursor at (1,1).
C14_Witness ==
    /\ starting_state = << <<>> >>
    /\ calls = <<97, 98, 10, 99, 100, 26>>
    /\ state = << <<97, 98>>, <<99>> >>
    /\ line_no = 1 /\ column = 1

\* C15: in every reachable state, buffer_action(ACTION_NOOP) returns the
\* current buffer and leaves the buffer, History, the Redo Stack and the
\* cursor as they were, raising nothing.
C15_NoopIsSideEffectFree ==
    LET r == undoable(Log, ACTION_NOOP)
    IN /\ ~r.raised
       /\ r.state = state
       /\ r.starting_state = starting_state
       /\ r.history = history
       /\ r.redo_stack = redo_stack
       /\ r.column = column
       /\ r.line_no = line_no

\* C15, witness: k has just been handled by move_cursor, which calls
\* buffer_action(ACTION_NOOP), with one action in History and one on the
\* Redo Stack, and the cursor is not where the last action of History
\* left it; ACTION_NOOP leaves all of it alone.
C15_Witness ==
    /\ status = "running"
    /\ key = 107
    /\ Len(history) = 1
    /\ Len(redo_stack) = 1
    /\ Len(state) = 2
    /\ line_no = 0
    /\ undoable(Log, ACTION_NOOP) = Log

\* C16: UNDO with an empty History and REDO with an empty Redo Stack never
\* fail and leave the buffer, History, the Redo Stack and the cursor
\* unchanged.
C16_UndoRedoOnEmptyAreNoOps ==
    [][ ( /\ status = "running"
          /\ \/ Binding(current_mode, key') = "ACTION_UNDO" /\ history = <<>>
             \/ Binding(current_mode, key') = "ACTION_REDO" /\ redo_stack = <<>> )
        => ( /\ status' = "running"
             /\ UNCHANGED <<starting_state, state, history, redo_stack,
                            column, line_no>> ) ]_vars

\* C16, witness: Ctrl-Z has just been handled with History and the Redo
\* Stack both empty (so History was empty before it), the cursor at column
\* 1 of the line "a".
C16_Witness ==
    /\ status = "running"
    /\ key = 26
    /\ history = <<>>
    /\ redo_stack = <<>>
    /\ state = << <<97>> >>
    /\ column = 1

\* C17: whenever the backspace action runs with carried column > 0 on a
\* non-empty carried line (committed by the backspace key, re-run by REDO,
\* or re-run last in the replay of an UNDO), it deletes the character
\* just before the carried column and leaves the live cursor at (carried
\* line, carried column - 1), wherever the cursor was before.
C17_BackspaceSetsCursorOnCarriedLine ==
    [][ LET Applies(e, st) ==
                /\ e.action = BackspaceAction
                /\ e.carried[1] > 0
                /\ e.carried[2] < Len(st)
                /\ Len(st[e.carried[2] + 1]) > 0
            Deleted(e, st) ==
                LET c == e.carried[1]
                    l == e.carried[2]
                IN /\ status' = "running"
                   /\ Len(state') = Len(st)
                   /\ Len(state'[l + 1]) = Len(st[l + 1]) - 1
                   /\ state' = [st EXCEPT ![l + 1] =
                                    SliceTo(st[l + 1], c - 1) \o SliceFrom(st[l + 1], c)]
                   /\ column' = c - 1
                   /\ line_no' = l
            n == Len(history)
            committed == [action |-> BackspaceAction, carried |-> <<column, line_no>>]
            replayed == remake_state(starting_state, SubSeq(history, 1, n - 2),
                                     column, line_no).state
        IN status = "running" =>
             /\ ( /\ Binding(current_mode, key') = "action_backspace"
                  /\ Applies(committed, state) )
                => Deleted(committed, state)
             /\ ( /\ Binding(current_mode, key') = "ACTION_REDO"
                  /\ redo_stack # <<>>
                  /\ Applies(redo_stack[Len(redo_stack)], state) )
                => Deleted(redo_stack[Len(redo_stack)], state)
             /\ ( /\ Binding(current_mode, key') = "ACTION_UNDO"
                  /\ n >= 2
                  /\ Applies(history[n - 1], replayed) )
                => Deleted(history[n - 1], replayed) ]_vars

\* C18: a submitted action that leaves the buffer unchanged, such as a
\* backspace at (line 0, column 0), is not appended to History and does
\* not clear the Redo Stack.
C18_UnchangedBufferIsNotCommitted ==
    [][ ( /\ status = "running"
          /\ Binding(current_mode, key') \in
                 {"key_action", "action_newline", "action_backspace"}
          /\ status' = "running"
          /\ state' = state )
        => ( /\ history' = history
             /\ redo_stack' = redo_stack ) ]_vars

\* C19: every insert-character, newline or backspace action that is run
\* (committed by its key, or re-run by REDO) has a carried state inside
\* the buffer it runs on: carried line < len(buffer) and carried column <=
\* len(buffer[carried line]); and no commit, UNDO or REDO raises by
\* indexing a line that does not exist.
C19_CarriedStateInsideBuffer ==
    [][ LET Inside(carried) ==
                /\ carried[2] < Len(state)
                /\ carried[1] <= Len(state[carried[2] + 1])
        IN status = "running" =>
             /\ Binding(current_mode, key') \in
                    {"key_action", "action_newline", "action_backspace"}
                => Inside(<<column, line_no>>)
             /\ ( /\ Binding(current_mode, key') = "ACTION_REDO"
                  /\ redo_stack # <<>> )
                => Inside(redo_stack[Len(redo_stack)].carried)
             /\ Binding(current_mode, key') \in
                    {"key_action", "action_newline", "action_backspace",
                     "ACTION_UNDO", "ACTION_REDO"}
                => status' = "running" ]_vars

\* C20: mode transitions (escape, i, ":"), normal-mode moves (h j k l)
\* and command-mode typing and backspace leave the buffer, History and
\* the Redo Stack unchanged, after UNDOs as well; and a REDO re-runs the
\* undone action with the carried state stored with it, not with the
\* cursor of the moment, and moves it back onto History.
C20_MovesAndModesKeepTheLog ==
    [][ status = "running" =>
          /\ Binding(current_mode, key') \in
                 {"set_mode_normal", "set_mode_insert", "set_mode_command",
                  "move_cursor", "keypress_function", "command_mode_backspace"}
             => UNCHANGED <<starting_state, state, history, redo_stack>>
          /\ ( /\ Binding(current_mode, key') = "ACTION_REDO"
               /\ redo_stack # <<>> )
             => LET redo == redo_stack[Len(redo_stack)]
                    r == run_action(redo, state, column, line_no)
                IN ~r.raised =>
                      /\ state' = r.state
                      /\ history' = Append(history, redo)
                      /\ redo_stack' = SubSeq(redo_stack, 1, Len(redo_stack) - 1) ]_vars

\* C20, witness: a newline committed at (0,0) on the buffer ["a"] and then
\* undone has just been re-run by a REDO that found the cursor at column
\* 1 of line 0 and the Redo Stack holding it; the line is split at the
\* stored column 0.
C20_Witness ==
    /\ status = "running"
    /\ calls = <<"ACTION_REDO", 1, 0, 1>>
    /\ starting_state = << <<97>> >>
    /\ history = << [action |-> NewlineAction, carried |-> <<0, 0>>] >>
    /\ state = << <<>>, <<97>> >>
    /\ redo_stack = <<>>

====
